---------------------------- MODULE Spec2Model ----------------------------
(***************************************************************************)
(* Model of the three Camoufox scripts of the repository:                  *)
(*   temp_camoufox_script.py  make_request                                  *)
(*   test-camoufox.py         test_sec_access                               *)
(*   test-sec-data.py         test_sec_form4_data, test_sec_search_api      *)
(* Strings are sequences of one-character strings, so that find, strip,    *)
(* startswith, lower and slicing are computed position by position as      *)
(* Python computes them.                                                    *)
(***************************************************************************)
EXTENDS Integers, Sequences, FiniteSets, TLC

VARIABLES
    script,     \* which script's __main__ block is running
    mainpc,     \* position inside the __main__ block
    fn,         \* function being executed ("none" between calls)
    pc,         \* position inside the function
    sessions,   \* browser sessions currently open at the backend
    inflight,   \* navigations / requests issued and not yet answered
    elapsed,    \* milliseconds waited by the navigation in flight (0 when none is)
    requests,   \* URL -> number of navigations / requests issued to it
    completed,  \* navigations / requests of this call that returned a response
    response,   \* <<>> (None / unset) or <<r>>: the Response object
    content,    \* page.content() of the first page (raw_content / content)
    content2,   \* page.content() of the second page (test_sec_access)
    data,       \* make_request: <<>> (unset) or <<string>>
    result,     \* make_request: <<>> (unset) or <<dict>>
    out,        \* JSON objects printed on stdout by make_request
    exc,        \* <<>> or <<message>>: exception propagating
    caught,     \* <<>> or <<message>>: exception the except block received
    raised,     \* history: some step of this call raised an exception
    timedOut,   \* history: a navigation of this call ran into its timeout
    ret,        \* return value of the function: "unset", "None", "True", "False"
    success1,   \* test-sec-data __main__: success1 ; test-camoufox: success
    success2    \* test-sec-data __main__: success2

vars == <<script, mainpc, fn, pc, sessions, inflight, elapsed, requests,
          completed, response, content, content2, data, result, out, exc,
          caught, raised, timedOut, ret, success1, success2>>

-----------------------------------------------------------------------------
(* Bounds of the model *)

\* longest page body of make_request / test_sec_form4_data, in tokens
MaxBodyLen == 4
\* longest page body of test_sec_access (two pages are read), in tokens
MaxPageLen == 2

-----------------------------------------------------------------------------
(* Strings *)

HtmlTag == <<"<","h","t","m","l">>
OpenTag == <<"<","o","w","n","e","r","s","h","i","p","D","o","c","u","m","e","n","t",">">>
CloseTag == <<"<","/","o","w","n","e","r","s","h","i","p","D","o","c","u","m","e","n","t",">">>
XmlDecl == <<"<","?","x","m","l">>
AccessDenied == <<"a","c","c","e","s","s"," ","d","e","n","i","e","d">>
BlockedWord == <<"b","l","o","c","k","e","d">>

\* pieces the backend's pages are made of
TokHtml == HtmlTag \o <<">">>
TokDenied == <<"A","c","c","e","s","s"," ","D","e","n","i","e","d">>
TokSpace == <<" ">>
TokText == <<"x">>

BodyTokens == {TokHtml, OpenTag, CloseTag, XmlDecl, TokDenied, TokSpace}
PageTokens == {TokHtml, TokDenied, BlockedWord, TokText}

RECURSIVE Flatten(_)
Flatten(ts) == IF ts = <<>> THEN <<>> ELSE Head(ts) \o Flatten(Tail(ts))

TokenSeqs(T, n) == UNION {[1..k -> T] : k \in 0..n}

\* pages the backend may serve
Bodies == {Flatten(ts) : ts \in TokenSeqs(BodyTokens, MaxBodyLen)}
Pages == {Flatten(ts) : ts \in TokenSeqs(PageTokens, MaxPageLen)}

Whitespace == {" ", "\n", "\t", "\r"}

\* str.find: lowest 0-based index of sub in s, -1 when absent
Find(s, sub) ==
    LET hits == {i \in 0..(Len(s) - Len(sub)) : SubSeq(s, i + 1, i + Len(sub)) = sub}
    IN IF hits = {} THEN -1 ELSE CHOOSE i \in hits : \A j \in hits : i <= j

\* sub in s
Contains(s, sub) == \E i \in 0..(Len(s) - Len(sub)) : SubSeq(s, i + 1, i + Len(sub)) = sub

\* s.startswith(prefix)
StartsWith(s, prefix) == Len(s) >= Len(prefix) /\ SubSeq(s, 1, Len(prefix)) = prefix

\* s[a:b] for a >= 0 and any integer b (Python clamps, and gives '' when b <= a)
Slice(s, a, b) ==
    LET hi == IF b < 0 THEN (IF Len(s) + b < 0 THEN 0 ELSE Len(s) + b)
              ELSE IF b > Len(s) THEN Len(s) ELSE b
    IN SubSeq(s, a + 1, hi)

\* s.strip()
Strip(s) ==
    LET keep == {i \in 1..Len(s) : s[i] \notin Whitespace}
    IN IF keep = {} THEN <<>>
       ELSE SubSeq(s, CHOOSE i \in keep : \A j \in keep : i <= j,
                      CHOOSE i \in keep : \A j \in keep : i >= j)

UpperLetters == <<"A","B","C","D","E","F","G","H","I","J","K","L","M",
                  "N","O","P","Q","R","S","T","U","V","W","X","Y","Z">>
LowerLetters == <<"a","b","c","d","e","f","g","h","i","j","k","l","m",
                  "n","o","p","q","r","s","t","u","v","w","x","y","z">>

\* s.lower()
Lower(s) ==
    [i \in 1..Len(s) |->
        IF \E k \in 1..Len(UpperLetters) : UpperLetters[k] = s[i]
        THEN LowerLetters[CHOOSE k \in 1..Len(UpperLetters) : UpperLetters[k] = s[i]]
        ELSE s[i]]


-----------------------------------------------------------------------------
(* Program constants and values *)

\* timeout=30000 of page.goto in make_request; the other scripts pass none and
\* run under the backend's default navigation / request timeout
NavTimeout == 30000
\* granularity of the model's clock
TickMs == NavTimeout \div 2
\* 'status': 500 of error_result
ErrorStatus == 500
\* response.status == 200 in test_sec_search_api
StatusOk == 200

MakeRequestUrl == "https://www.sec.gov/Archives/edgar/data/9631/000183988225050613/xslF345X04/ownership.xml"
SecMainUrl == "https://www.sec.gov/"
EdgarSearchUrl == "https://www.sec.gov/edgar/searchedgar/companysearch.html"
Form4Url == "https://www.sec.gov/Archives/edgar/data/1774807/000121390025087374/ownership.xml"
SearchApiUrl == "https://efts.sec.gov/LATEST/search-index"
Urls == {MakeRequestUrl, SecMainUrl, EdgarSearchUrl, Form4Url, SearchApiUrl}

Scripts == {"temp_camoufox_script", "test-camoufox", "test-sec-data"}
PageFns == {"make_request", "test_sec_access", "test_sec_form4_data"}
TestFns == {"test_sec_access", "test_sec_form4_data", "test_sec_search_api"}

\* the function the __main__ block of a script calls first
FirstFn(s) ==
    CASE s = "temp_camoufox_script" -> "make_request"
      [] s = "test-camoufox" -> "test_sec_access"
      [] s = "test-sec-data" -> "test_sec_form4_data"

\* the target of the navigation / request issued at a position of a function
UrlOf(f, p) ==
    CASE f = "make_request" -> MakeRequestUrl
      [] f = "test_sec_access" /\ p = "goto1" -> SecMainUrl
      [] f = "test_sec_access" /\ p = "goto2" -> EdgarSearchUrl
      [] f = "test_sec_form4_data" -> Form4Url
      [] f = "test_sec_search_api" -> SearchApiUrl

\* Response objects of the backend
Responses == {[status |-> 200, headers |-> {"Content-Type"}],
              [status |-> 403, headers |-> {}]}

\* messages of the exceptions the backend and the runtime raise
StartFailed == "Failed to launch browser"
BackendError == "Page crashed"
TimeoutMsg == "Timeout 30000ms exceeded."
NoneStatus == "'NoneType' object has no attribute 'status'"
EncodeError == "'ascii' codec can't encode character"
ParseError == "Expecting value: line 1 column 1 (char 0)"
CloseFailed == "Connection closed while closing browser"

-----------------------------------------------------------------------------
(* Pure parts of the functions *)

\* ExtractXml with the slice ending where the close tag starts
ExtractXml_EndAtCloseStart(raw) ==
    IF StartsWith(Strip(raw), HtmlTag)
    THEN LET start == Find(raw, OpenTag)
         IN IF start > -1
            THEN Slice(raw, start, Find(raw, CloseTag))
            ELSE LET start2 == Find(raw, XmlDecl)
                 IN IF start2 > -1 THEN Slice(raw, start2, Len(raw)) ELSE raw
    ELSE raw

\* make_request: strip the HTML wrapper from the raw page content
ExtractXml(raw) ==
    IF StartsWith(Strip(raw), HtmlTag)
    THEN LET start == Find(raw, OpenTag)
         IN IF start > -1
            THEN Slice(raw, start, Find(raw, CloseTag) + Len(CloseTag))
            ELSE LET start2 == Find(raw, XmlDecl)
                 IN IF start2 > -1 THEN Slice(raw, start2, Len(raw)) ELSE raw
    ELSE raw

\* make_request: data = raw_content.strip()
MakeData(raw) == Strip(ExtractXml(raw))

\* make_request: the result dict
SuccessResult(d, r) ==
    [data |-> <<d>>, status |-> r.status,
     headers |-> IF r.headers # {} THEN r.headers ELSE {}]

\* ErrorResult that passes on whatever body was read before the failure
ErrorResult_KeepsBody(msg) ==
    [data |-> data, status |-> ErrorStatus, headers |-> {}, error |-> msg]

\* make_request: the error_result dict of the except block
ErrorResult(msg) ==
    [data |-> <<>>, status |-> ErrorStatus, headers |-> {}, error |-> msg]

\* 'access denied' in c.lower() or 'blocked' in c.lower()
IsBlocked(c) == Contains(Lower(c), AccessDenied) \/ Contains(Lower(c), BlockedWord)

\* test_sec_form4_data: content.strip().startswith('<?xml') and '<ownershipDocument>' in content
IsForm4Xml(c) == StartsWith(Strip(c), XmlDecl) /\ Contains(c, OpenTag)

\* test_sec_form4_data: the value returned for a page content
Form4Verdict(c) ==
    IF IsForm4Xml(c) THEN "True"
    ELSE IF IsBlocked(c) THEN "False"
    ELSE "False"

\* test_sec_access: the value returned after the second block check
AccessVerdict(c2) == IF IsBlocked(c2) THEN "False" ELSE "True"

-----------------------------------------------------------------------------
(* State *)

mainVars == <<script, mainpc, success1, success2>>
navVars == <<inflight, elapsed, requests, completed, response, timedOut>>
pageVars == <<content, content2, data, result>>

Init ==
    /\ script \in Scripts
    /\ mainpc = "start"
    /\ fn = "none"
    /\ pc = "idle"
    /\ sessions = 0
    /\ inflight = 0
    /\ elapsed = 0
    /\ requests = [u \in Urls |-> 0]
    /\ completed = 0
    /\ response = <<>>
    /\ content = <<>>
    /\ content2 = <<>>
    /\ data = <<>>
    /\ result = <<>>
    /\ out = <<>>
    /\ exc = <<>>
    /\ caught = <<>>
    /\ raised = FALSE
    /\ timedOut = FALSE
    /\ ret = "unset"
    /\ success1 = "unset"
    /\ success2 = "unset"

\* a statement inside the with block raises: the block is left through __exit__
RaiseInWith(msg) ==
    /\ exc' = <<msg>>
    /\ raised' = TRUE
    /\ pc' = "exit"

\* fresh locals of a function call
FreshCall ==
    /\ completed' = 0
    /\ response' = <<>>
    /\ content' = <<>>
    /\ content2' = <<>>
    /\ data' = <<>>
    /\ result' = <<>>
    /\ exc' = <<>>
    /\ caught' = <<>>
    /\ raised' = FALSE
    /\ timedOut' = FALSE
    /\ ret' = "unset"

-----------------------------------------------------------------------------
(* __main__ blocks *)

\* the script calls its first function
Main_Start ==
    /\ mainpc = "start"
    /\ mainpc' = "call1"
    /\ fn' = FirstFn(script)
    /\ pc' = "enter"
    /\ UNCHANGED <<caught, script, success1, success2, sessions, navVars, pageVars,
                   out, exc, raised, ret>>

\* Main_Second that runs the second test only when the first one passed
Main_Second_OnlyOnSuccess ==
    /\ script = "test-sec-data"
    /\ mainpc = "call1"
    /\ pc = "done"
    /\ success1' = ret
    /\ IF ret = "True"
       THEN /\ mainpc' = "call2"
            /\ fn' = "test_sec_search_api"
            /\ pc' = "enter"
       ELSE /\ mainpc' = "end"
            /\ fn' = "none"
            /\ pc' = "idle"
    /\ FreshCall
    /\ UNCHANGED <<script, success2, sessions, inflight, elapsed, requests, out>>

\* test-sec-data: success1 = test_sec_form4_data(); time.sleep(3);
\* then test_sec_search_api() is called
Main_Second ==
    /\ script = "test-sec-data"
    /\ mainpc = "call1"
    /\ pc = "done"
    /\ success1' = ret
    /\ mainpc' = "call2"
    /\ fn' = "test_sec_search_api"
    /\ pc' = "enter"
    /\ FreshCall
    /\ UNCHANGED <<script, success2, sessions, inflight, elapsed, requests, out>>

\* the last call of the script has returned; its locals are gone
Main_End ==
    /\ pc = "done"
    /\ \/ /\ script = "temp_camoufox_script"
          /\ mainpc = "call1"
          /\ UNCHANGED <<success1, success2>>
       \/ /\ script = "test-camoufox"
          /\ mainpc = "call1"
          /\ success1' = ret
          /\ UNCHANGED success2
       \/ /\ script = "test-sec-data"
          /\ mainpc = "call2"
          /\ success2' = ret
          /\ UNCHANGED success1
    /\ mainpc' = "end"
    /\ fn' = "none"
    /\ pc' = "idle"
    /\ FreshCall
    /\ UNCHANGED <<script, sessions, inflight, elapsed, requests, out>>

-----------------------------------------------------------------------------
(* Steps common to the four functions *)

\* with Camoufox(...) as browser: the session is acquired, or __enter__ raises
\* and the except block is reached without any session
Enter ==
    /\ pc = "enter"
    /\ \/ /\ sessions' = sessions + 1
          /\ pc' = "setup"
          /\ UNCHANGED <<exc, raised>>
       \/ /\ exc' = <<StartFailed>>
          /\ raised' = TRUE
          /\ pc' = "handler"
          /\ UNCHANGED sessions
    /\ UNCHANGED <<caught, mainVars, fn, navVars, pageVars, out, ret>>

\* page = browser.new_page(); page.set_extra_http_headers(...)
Setup ==
    /\ pc = "setup"
    /\ \/ /\ pc' = "goto1"
          /\ UNCHANGED <<exc, raised>>
       \/ RaiseInWith(BackendError)
    /\ UNCHANGED <<caught, mainVars, fn, sessions, navVars, pageVars, out, ret>>

\* page.goto(url, ...) / page.request.post(url, ...) is issued
NavIssue ==
    /\ pc \in {"goto1", "goto2"}
    /\ inflight' = inflight + 1
    /\ requests' = [requests EXCEPT ![UrlOf(fn, pc)] = @ + 1]
    /\ elapsed' = 0
    /\ pc' = IF pc = "goto1" THEN "wait1" ELSE "wait2"
    /\ UNCHANGED <<caught, mainVars, fn, sessions, completed, response, timedOut,
                   pageVars, out, exc, raised, ret>>

\* the call blocks while the backend has not answered
NavTick ==
    /\ pc \in {"wait1", "wait2"}
    /\ elapsed < NavTimeout
    /\ elapsed' = elapsed + TickMs
    /\ UNCHANGED <<caught, mainVars, fn, pc, sessions, inflight, requests, completed,
                   response, timedOut, pageVars, out, exc, raised, ret>>

\* the backend answers in time: goto returns a Response or None,
\* request.post returns an APIResponse
NavRespond ==
    /\ pc \in {"wait1", "wait2"}
    /\ elapsed < NavTimeout
    /\ \/ \E r \in Responses : response' = <<r>>
       \/ /\ fn # "test_sec_search_api"
          /\ response' = <<>>
    /\ inflight' = inflight - 1
    /\ elapsed' = 0
    /\ completed' = completed + 1
    /\ pc' = IF pc = "wait1" THEN "page1" ELSE "page2"
    /\ UNCHANGED <<caught, mainVars, fn, sessions, requests, timedOut,
                   pageVars, out, exc, raised, ret>>

\* NavError that issues the navigation again instead of raising
NavError_Retry ==
    /\ pc \in {"wait1", "wait2"}
    /\ elapsed < NavTimeout
    /\ inflight' = inflight - 1
    /\ elapsed' = 0
    /\ pc' = IF pc = "wait1" THEN "goto1" ELSE "goto2"
    /\ UNCHANGED <<caught, mainVars, fn, sessions, requests, completed,
                   response, timedOut, pageVars, out, exc, raised, ret>>

\* the navigation fails before the timeout
NavError ==
    /\ pc \in {"wait1", "wait2"}
    /\ elapsed < NavTimeout
    /\ inflight' = inflight - 1
    /\ elapsed' = 0
    /\ RaiseInWith(BackendError)
    /\ UNCHANGED <<caught, mainVars, fn, sessions, requests, completed,
                   response, timedOut, pageVars, out, ret>>

\* NavTimedOut with the timeout disabled: the call keeps blocking
NavTimedOut_Disabled ==
    /\ pc \in {"wait1", "wait2"}
    /\ elapsed >= NavTimeout
    /\ UNCHANGED vars

\* the timeout elapses: the backend raises its TimeoutError
NavTimedOut ==
    /\ pc \in {"wait1", "wait2"}
    /\ elapsed >= NavTimeout
    /\ inflight' = inflight - 1
    /\ elapsed' = 0
    /\ timedOut' = TRUE
    /\ RaiseInWith(TimeoutMsg)
    /\ UNCHANGED <<caught, mainVars, fn, sessions, requests, completed,
                   response, pageVars, out, ret>>

\* Exit of a function that closes the browser only at the end of the block,
\* without scoped acquisition: a failure leaves the session open
Exit_NoScopedRelease ==
    /\ pc = "exit"
    /\ \/ /\ exc = <<>>
          /\ sessions' = sessions - 1
          /\ pc' = "done"
          /\ ret' = IF ret = "unset" THEN "None" ELSE ret
          /\ UNCHANGED <<exc, raised>>
       \/ /\ exc # <<>>
          /\ pc' = "handler"
          /\ UNCHANGED <<sessions, exc, raised, ret>>
    /\ UNCHANGED <<caught, mainVars, fn, navVars, pageVars, out>>

\* the with block is left: Camoufox.__exit__ closes the session on every path,
\* and may itself raise; a pending exception or one raised here reaches the
\* except block, a pending return value is then dropped
Exit ==
    /\ pc = "exit"
    /\ sessions' = sessions - 1
    /\ \/ /\ exc = <<>>
          /\ pc' = "done"
          /\ ret' = IF ret = "unset" THEN "None" ELSE ret
          /\ UNCHANGED <<exc, raised>>
       \/ /\ exc # <<>>
          /\ pc' = "handler"
          /\ UNCHANGED <<exc, raised, ret>>
       \/ /\ exc' = <<CloseFailed>>
          /\ raised' = TRUE
          /\ pc' = "handler"
          /\ UNCHANGED ret
    /\ UNCHANGED <<caught, mainVars, fn, navVars, pageVars, out>>

-----------------------------------------------------------------------------
(* make_request *)

\* raw_content = page.content(); the HTML wrapper is removed; data = ...strip()
MR_Content ==
    /\ fn = "make_request"
    /\ pc = "page1"
    /\ \/ \E raw \in Bodies :
             /\ content' = raw
             /\ data' = <<MakeData(raw)>>
             /\ pc' = "result"
             /\ UNCHANGED <<exc, raised>>
       \/ /\ RaiseInWith(BackendError)
          /\ UNCHANGED <<content, data>>
    /\ UNCHANGED <<caught, mainVars, fn, sessions, navVars, content2, result, out, ret>>

\* result = {'data': data, 'status': response.status, 'headers': ...}
MR_Result ==
    /\ fn = "make_request"
    /\ pc = "result"
    /\ \/ /\ response # <<>>
          /\ result' = <<SuccessResult(data[1], response[1])>>
          /\ pc' = "print"
          /\ UNCHANGED <<exc, raised>>
       \/ /\ response = <<>>
          /\ RaiseInWith(NoneStatus)
          /\ UNCHANGED result
    /\ UNCHANGED <<caught, mainVars, fn, sessions, navVars, content, content2, data,
                   out, ret>>

\* print(json.dumps(result, ensure_ascii=False)), the last statement of the
\* with block
MR_Print ==
    /\ fn = "make_request"
    /\ pc = "print"
    /\ \/ /\ out' = Append(out, result[1])
          /\ pc' = "exit"
          /\ UNCHANGED <<exc, raised>>
       \/ /\ RaiseInWith(EncodeError)
          /\ UNCHANGED out
    /\ UNCHANGED <<caught, mainVars, fn, sessions, navVars, pageVars, ret>>

\* except Exception as e: print(json.dumps(error_result))
MR_Handler ==
    /\ fn = "make_request"
    /\ pc = "handler"
    /\ out' = Append(out, ErrorResult(exc[1]))
    /\ caught' = exc
    /\ exc' = <<>>
    /\ ret' = "None"
    /\ pc' = "done"
    /\ UNCHANGED <<mainVars, fn, sessions, navVars, pageVars, raised>>

-----------------------------------------------------------------------------
(* test_sec_access *)

\* print(response.status); content = page.content()
TA_Page1 ==
    /\ fn = "test_sec_access"
    /\ pc = "page1"
    /\ \/ /\ response # <<>>
          /\ \E c \in Pages : content' = c
          /\ pc' = "check1"
          /\ UNCHANGED <<exc, raised>>
       \/ /\ response = <<>>
          /\ RaiseInWith(NoneStatus)
          /\ UNCHANGED content
       \/ /\ response # <<>>
          /\ RaiseInWith(BackendError)
          /\ UNCHANGED content
    /\ UNCHANGED <<caught, mainVars, fn, sessions, navVars, content2, data, result,
                   out, ret>>

\* TA_Check1 that reports the block but goes on to the second page
TA_Check1_NoEarlyReturn ==
    /\ fn = "test_sec_access"
    /\ pc = "check1"
    /\ pc' = "goto2"
    /\ UNCHANGED <<caught, mainVars, fn, sessions, navVars, pageVars, out, exc,
                   raised, ret>>

\* the block check of the first page; return False, or time.sleep(2) and go on
TA_Check1 ==
    /\ fn = "test_sec_access"
    /\ pc = "check1"
    /\ IF IsBlocked(content)
       THEN /\ ret' = "False"
            /\ pc' = "exit"
       ELSE /\ pc' = "goto2"
            /\ UNCHANGED ret
    /\ UNCHANGED <<caught, mainVars, fn, sessions, navVars, pageVars, out, exc, raised>>

\* print(response2.status); content2 = page.content()
TA_Page2 ==
    /\ fn = "test_sec_access"
    /\ pc = "page2"
    /\ \/ /\ response # <<>>
          /\ \E c \in Pages : content2' = c
          /\ pc' = "check2"
          /\ UNCHANGED <<exc, raised>>
       \/ /\ response = <<>>
          /\ RaiseInWith(NoneStatus)
          /\ UNCHANGED content2
       \/ /\ response # <<>>
          /\ RaiseInWith(BackendError)
          /\ UNCHANGED content2
    /\ UNCHANGED <<caught, mainVars, fn, sessions, navVars, content, data, result,
                   out, ret>>

\* the block check of the second page; return False or return True
TA_Check2 ==
    /\ fn = "test_sec_access"
    /\ pc = "check2"
    /\ ret' = AccessVerdict(content2)
    /\ pc' = "exit"
    /\ UNCHANGED <<caught, mainVars, fn, sessions, navVars, pageVars, out, exc, raised>>

-----------------------------------------------------------------------------
(* test_sec_form4_data *)

\* print(response.status); content = page.content()
F4_Page ==
    /\ fn = "test_sec_form4_data"
    /\ pc = "page1"
    /\ \/ /\ response # <<>>
          /\ \E c \in Bodies : content' = c
          /\ pc' = "check1"
          /\ UNCHANGED <<exc, raised>>
       \/ /\ response = <<>>
          /\ RaiseInWith(NoneStatus)
          /\ UNCHANGED content
       \/ /\ response # <<>>
          /\ RaiseInWith(BackendError)
          /\ UNCHANGED content
    /\ UNCHANGED <<caught, mainVars, fn, sessions, navVars, content2, data, result,
                   out, ret>>

\* valid XML: return True; block page or anything else: return False
F4_Check ==
    /\ fn = "test_sec_form4_data"
    /\ pc = "check1"
    /\ ret' = Form4Verdict(content)
    /\ pc' = "exit"
    /\ UNCHANGED <<caught, mainVars, fn, sessions, navVars, pageVars, out, exc, raised>>

-----------------------------------------------------------------------------
(* test_sec_search_api *)

\* if response.status == 200: ... else: return False
SA_Status ==
    /\ fn = "test_sec_search_api"
    /\ pc = "page1"
    /\ IF response[1].status = StatusOk
       THEN /\ pc' = "parse"
            /\ UNCHANGED ret
       ELSE /\ ret' = "False"
            /\ pc' = "exit"
    /\ UNCHANGED <<caught, mainVars, fn, sessions, navVars, pageVars, out, exc, raised>>

\* result = response.json(); the hits are listed; return True
SA_Parse ==
    /\ fn = "test_sec_search_api"
    /\ pc = "parse"
    /\ \/ /\ ret' = "True"
          /\ pc' = "exit"
          /\ UNCHANGED <<exc, raised>>
       \/ /\ RaiseInWith(ParseError)
          /\ UNCHANGED ret
    /\ UNCHANGED <<caught, mainVars, fn, sessions, navVars, pageVars, out>>

\* except Exception as e: print(...); return False   (the three test functions)
Test_Handler ==
    /\ fn \in TestFns
    /\ pc = "handler"
    /\ caught' = exc
    /\ exc' = <<>>
    /\ ret' = "False"
    /\ pc' = "done"
    /\ UNCHANGED <<mainVars, fn, sessions, navVars, pageVars, out, raised>>

-----------------------------------------------------------------------------
(* Specification *)

Next ==
    \/ Main_Start
    \/ Main_Second
    \/ Main_End
    \/ Enter
    \/ Setup
    \/ NavIssue
    \/ NavTick
    \/ NavRespond
    \/ NavError
    \/ NavTimedOut
    \/ Exit
    \/ MR_Content
    \/ MR_Result
    \/ MR_Print
    \/ MR_Handler
    \/ TA_Page1
    \/ TA_Check1
    \/ TA_Page2
    \/ TA_Check2
    \/ F4_Page
    \/ F4_Check
    \/ SA_Status
    \/ SA_Parse
    \/ Test_Handler

Spec == Init /\ [][Next]_vars

-----------------------------------------------------------------------------
(* Properties *)

IsSuccess(r) == "error" \notin DOMAIN r
IsError(r) == "error" \in DOMAIN r

\* 0-based positions at which sub occurs in s
Occurrences(s, sub) ==
    {i \in 0..Len(s) : i + Len(sub) <= Len(s) /\ \A k \in 1..Len(sub) : s[i + k] = sub[k]}

Least(S) == CHOOSE i \in S : \A j \in S : i <= j

\* an HTML document that wraps <ownershipDocument>...</ownershipDocument>:
\* the first close tag of the document follows the first open tag
IsWrappedDoc(raw) ==
    /\ StartsWith(Strip(raw), HtmlTag)
    /\ Occurrences(raw, OpenTag) # {}
    /\ Occurrences(raw, CloseTag) # {}
    /\ Least(Occurrences(raw, OpenTag)) < Least(Occurrences(raw, CloseTag))

\* the span from the first open tag through the close tag after it, inclusive
ExpectedSpan(raw) ==
    LET o == Least(Occurrences(raw, OpenTag))
        c == Least({j \in Occurrences(raw, CloseTag) : j > o})
    IN [k \in 1..(c + Len(CloseTag) - o) |-> raw[o + k]]

\* an HTML-wrapped body without any structural marker
HasNoMarker(raw) ==
    /\ StartsWith(Strip(raw), HtmlTag)
    /\ ~ \E o \in Occurrences(raw, OpenTag) : \E c \in Occurrences(raw, CloseTag) : o < c
    /\ Occurrences(raw, XmlDecl) = {}

\* an HTML page that carries the phrase "access denied" in any case
IsDeniedHtml(c) ==
    /\ StartsWith(Strip(c), HtmlTag)
    /\ Occurrences(Lower(c), AccessDenied) # {}

\* C1: every invocation of make_request prints exactly one JSON object, on
\* every execution path, the failure of the session release after the success
\* result was printed included.
C1_ExactlyOneOutcome ==
    (fn = "make_request" /\ pc = "done") => Len(out) = 1

\* C2: once a function has returned (normally, by an early return False inside
\* the session scope, or through the except block) the session it opened is
\* released: no session is open.
C2_NoSessionLeak ==
    /\ pc = "done" => sessions = 0
    /\ mainpc = "end" => sessions = 0

\* test_sec_access has returned False from inside the with block, after the
\* first page was found blocked
C2_Witness ==
    /\ fn = "test_sec_access"
    /\ pc = "done"
    /\ ~raised
    /\ completed = 1
    /\ IsBlocked(content)
    /\ ret = "False"
    /\ sessions = 0

C4_BlockedNeverSuccess ==
    /\ (fn = "make_request" /\ IsDeniedHtml(content))
          => \A i \in 1..Len(out) : IsError(out[i])
    /\ (fn \in {"test_sec_access", "test_sec_form4_data"}
           /\ (IsDeniedHtml(content) \/ IsDeniedHtml(content2)))
          => ret # "True"

\* C5: when the body starts with an HTML wrapper and holds no structural
\* marker (no open/close tag pair, no <?xml declaration), make_request fails
\* with an error outcome and returns neither the wrapper nor a partial slice
\* as a success result.
C5_NoMarkerIsError ==
    (fn = "make_request" /\ data # <<>> /\ HasNoMarker(content))
        => \A i \in 1..Len(out) : IsError(out[i])

\* C6: every error outcome of make_request carries no body: data is null,
\* headers is empty, status is 500 and error is the message of the exception
\* the except block received, also when the body had already been read.
C6_ErrorCarriesNoBody ==
    /\ \A i \in 1..Len(out) :
          IsError(out[i]) =>
             /\ out[i].data = <<>>
             /\ out[i].headers = {}
             /\ out[i].status = 500
             /\ DOMAIN out[i] = {"data", "status", "headers", "error"}
             /\ i = Len(out)
    /\ (fn = "make_request" /\ pc = "done" /\ raised)
          => /\ caught # <<>>
             /\ IsError(out[Len(out)])
             /\ out[Len(out)].error = caught[1]
    /\ (fn = "make_request" /\ ~raised) => \A i \in 1..Len(out) : IsSuccess(out[i])

\* make_request failed while printing, after the body was read
C6_Witness ==
    /\ fn = "make_request"
    /\ pc = "done"
    /\ data # <<>>
    /\ Len(data[1]) > 0
    /\ caught = <<EncodeError>>
    /\ Len(out) = 1
    /\ IsError(out[1])

\* the outcome of a call that failed: error JSON for make_request, False for
\* the test functions
FailureOutcome ==
    IF fn = "make_request"
    THEN Len(out) = 1 /\ IsError(out[1])
    ELSE ret = "False"

\* statements the function still has to execute at a position, at most; a
\* waiting navigation counts the clock ticks left before its timeout
PcRank ==
    CASE pc = "enter" -> 60
      [] pc = "setup" -> 56
      [] pc = "goto1" -> 52
      [] pc = "wait1" -> 44 + ((NavTimeout - elapsed) \div TickMs)
      [] pc = "page1" -> 40
      [] pc \in {"check1", "result", "parse"} -> 36
      [] pc = "print" -> 32
      [] pc = "goto2" -> 28
      [] pc = "wait2" -> 20 + ((NavTimeout - elapsed) \div TickMs)
      [] pc = "page2" -> 16
      [] pc = "check2" -> 12
      [] pc = "exit" -> 8
      [] pc = "handler" -> 4
      [] pc = "done" -> 2
      [] pc = "idle" -> 0

\* calls the __main__ block still has to make or finish
MainRank ==
    CASE mainpc = "start" -> 3
      [] mainpc = "call1" -> 2
      [] mainpc = "call2" -> 1
      [] mainpc = "end" -> 0

StepsLeft == 100 * MainRank + PcRank

\* C7: a fetch never hangs: a function that waits for the backend, or whose
\* navigation ran into the timeout, can always execute a next statement (a
\* navigation that got no answer by its timeout raises), every step brings
\* the script closer to its end, the wait of a navigation never exceeds the
\* timeout, and a call whose navigation ran into the timeout returns with a
\* failure outcome (error JSON for make_request, False for the test
\* functions).
C7_TimeoutTerminates ==
    /\ [](/\ (mainpc # "end" /\ (timedOut \/ pc \in {"wait1", "wait2"}))
                => ENABLED <<Next>>_vars
          /\ elapsed <= NavTimeout
          /\ (pc \in {"wait1", "wait2"} /\ elapsed >= NavTimeout)
                => ENABLED <<NavTimedOut>>_vars
          /\ (timedOut /\ pc = "done") => FailureOutcome
          /\ (timedOut /\ pc \notin {"done", "idle"}) => pc \in {"exit", "handler"})
    /\ [][StepsLeft' < StepsLeft]_vars

\* make_request has returned after its navigation timed out
C7_Witness ==
    /\ fn = "make_request"
    /\ pc = "done"
    /\ timedOut
    /\ Len(out) = 1
    /\ IsError(out[1])
    /\ out[1].error = TimeoutMsg

\* C8: no retries: each target URL is requested at most once in one run of a
\* script, also after a navigation or request has failed.
C8_NoRetry ==
    \A u \in Urls : requests[u] <= 1

\* test_sec_search_api has returned after its only request failed
C8_Witness ==
    /\ fn = "test_sec_search_api"
    /\ pc = "done"
    /\ raised
    /\ completed = 0
    /\ requests[SearchApiUrl] = 1
    /\ ret = "False"

\* the second navigation of test_sec_access is issued only after the first
\* page was read and passed the block check
SecondAfterCheck ==
    (fn = "test_sec_access" /\ requests[EdgarSearchUrl] > 0)
        => /\ requests[SecMainUrl] = 1
           /\ completed >= 1
           /\ pc \notin {"enter", "setup", "goto1", "wait1", "page1", "check1"}
           /\ ~IsBlocked(content)

\* C9 as stated: test_sec_access returns True if and only if both navigations
\* completed without an exception and neither page is a block page; the
\* second navigation follows the first block check.
C9_Original ==
    /\ SecondAfterCheck
    /\ (fn = "test_sec_access" /\ pc = "done")
          => (ret = "True" <=> /\ completed = 2
                               /\ ~IsBlocked(content)
                               /\ ~IsBlocked(content2))

\* C9 amended: test_sec_access returns True if and only if both navigations
\* completed, no step of the call raised an exception (status read, content
\* read and session release included) and neither page is a block page; the
\* second navigation follows the first block check.
C9_TrueIffClean ==
    /\ SecondAfterCheck
    /\ (fn = "test_sec_access" /\ pc = "done")
          => /\ ret \in {"True", "False"}
             /\ (ret = "True" <=> /\ completed = 2
                                  /\ ~raised
                                  /\ ~IsBlocked(content)
                                  /\ ~IsBlocked(content2))

\* test_sec_access has returned True after reading two pages
C9_Witness ==
    /\ fn = "test_sec_access"
    /\ pc = "done"
    /\ ret = "True"
    /\ completed = 2
    /\ Len(content) > 0
    /\ Len(content2) > 0

\* C10: in test-sec-data at most one session is open at any time, a session
\* has at most one navigation or request in flight, the session of the first
\* test is released before the second is acquired, and the second test is run
\* whatever the outcome of the first.
C10_Serialised ==
    /\ sessions \in {0, 1}
    /\ inflight \in {0, 1}
    /\ inflight <= sessions
    /\ pc = "enter" => sessions = 0
    /\ (script = "test-sec-data" /\ mainpc = "call1" /\ pc = "done")
          => ENABLED Main_Second
    /\ (script = "test-sec-data" /\ mainpc = "end")
          => /\ success1 \in {"True", "False"}
             /\ success2 \in {"True", "False"}

\* both tests ran although the first one failed
C10_Witness ==
    /\ script = "test-sec-data"
    /\ mainpc = "end"
    /\ success1 = "False"
    /\ success2 = "True"
    /\ requests[Form4Url] = 1
    /\ requests[SearchApiUrl] = 1

=============================================================================
